---- MODULE Spec2Model ----
(***************************************************************************)
(* Model of components/PointCloudAnimation.tsx: the graph builder          *)
(* (initializePointCloud), the lifecycle stage machine (the 2 s timer,     *)
(* setCircleTargets and its position tweens), the glow propagator          *)
(* (scheduleGlowingSection, startGlowingSection and its fade tweens), the  *)
(* frame loop (animate) and the effect's mount and cleanup.                *)
(*                                                                         *)
(* Conventions.                                                            *)
(*  - Vertices are indexed 0..n-1 as in the source.  The edge list is a    *)
(*    TLA+ sequence, so the edge the source calls edges[k] is edges[k+1]   *)
(*    here, and edgesToGlow holds these 1-based indices.                   *)
(*  - A coordinate is an integer; THREE.Vector3 is a triple <<x, y, z>>.   *)
(*  - Time is counted in units of 250 ms, which divides every delay and    *)
(*    duration of the source (2 s, 1.25 s, 15 s).                          *)
(***************************************************************************)
EXTENDS Integers, Sequences, FiniteSets

VARIABLES
    view,         \* "created" | "mounted" | "unmounted": the effect of line 43 and its cleanup
    container,    \* containerRef.current is set when the effect runs
    vertices,     \* verticesRef.current: [0..n-1 -> Vertex]
    edges,        \* edgesRef.current: Seq(Edge)
    displaced,    \* per vertex: the frame loop has moved position since it was last set
    stage,        \* stageRef.current
    timers,       \* the host's pending setTimeout callbacks
    timeoutRef,   \* timeoutRef.current: a timer handle, 0 for null
    rafPending,   \* number of pending requestAnimationFrame(animate) callbacks
    tweens,       \* gsap's global timeline: the tweens in flight, in start order
    nodesToGlow,  \* startGlowingSection: the vertices selected by the last traversal
    edgesToGlow,  \* startGlowingSection: the edges marked by the last traversal
    maxGlowNodes, \* startGlowingSection: the cap drawn for the last traversal
    ran,          \* the handlers that have run since the effect's cleanup
    inp,          \* the random draws handed to the function under check
    attached,     \* renderer.domElement is a child of the container (lines 63, 93)
    rendererSize, \* the size last given to renderer.setSize (lines 62, 75)
    turn          \* initializePointCloud: the index i of the loop of line 129

vars == <<view, container, vertices, edges, displaced, stage, timers, timeoutRef,
          rafPending, tweens, nodesToGlow, edgesToGlow, maxGlowNodes, ran, inp, attached,
                   rendererSize, turn>>

(***************************************************************************)
(* Configuration (lines 35-39) and the bounds of the model.                *)
(***************************************************************************)
numConnections == 3

\* Number of vertices of the graphs built under SpecGraph.
GraphVertices == 5

\* Coordinates of the random cloud positions are drawn from 0..MaxCoord.
MaxCoord == 2

\* Array.prototype.includes on a number[]
Includes(s, x) == \E k \in 1..Len(s) : s[k] = x

\* The cloud positions the model draws for Math.random() of lines 110-114.
Points == {<<x, 0, 0>> : x \in 0..MaxCoord}

\* THREE.Vector3.distanceTo; the square of the distance orders pairs as the
\* distance does, and line 141 only compares distances.
distanceTo(a, b) ==
    (a[1] - b[1]) * (a[1] - b[1]) + (a[2] - b[2]) * (a[2] - b[2])
        + (a[3] - b[3]) * (a[3] - b[3])

\* Lines 116-123: the vertex pushed for a drawn position.
NewVertex(p) ==
    [position |-> p, initialPosition |-> p, targetPosition |-> p,
     connections |-> <<>>, glowing |-> FALSE, glowIntensity |-> 0]

\* Lines 158-163: the edge pushed for a new connection.
NewEdge(i, j) == [from |-> i, to |-> j, glowing |-> FALSE, glowIntensity |-> 0]

CandidateNoSelfCheck(vs, i, j) == ~Includes(vs[i].connections, j)

\* Line 138: j is skipped when it is i itself or already connected to i.
Candidate(vs, i, j) == ~(i = j \/ Includes(vs[i].connections, j))

\* Lines 134-145: the scan for the nearest candidate; nearestIdx = -1 stands
\* for nearestDist = Infinity.
RECURSIVE FindNearest(_, _, _, _, _)
FindNearestLastOnTies(vs, i, j, nearestIdx, nearestDist) ==
    IF j >= Cardinality(DOMAIN vs) THEN nearestIdx
    ELSE IF ~Candidate(vs, i, j) THEN FindNearest(vs, i, j + 1, nearestIdx, nearestDist)
    ELSE LET dist == distanceTo(vs[i].position, vs[j].position) IN
         IF nearestIdx = -1 \/ dist <= nearestDist
         THEN FindNearest(vs, i, j + 1, j, dist)
         ELSE FindNearest(vs, i, j + 1, nearestIdx, nearestDist)

FindNearest(vs, i, j, nearestIdx, nearestDist) ==
    IF j >= Cardinality(DOMAIN vs) THEN nearestIdx
    ELSE IF ~Candidate(vs, i, j) THEN FindNearest(vs, i, j + 1, nearestIdx, nearestDist)
    ELSE LET dist == distanceTo(vs[i].position, vs[j].position) IN
         IF nearestIdx = -1 \/ dist < nearestDist
         THEN FindNearest(vs, i, j + 1, j, dist)
         ELSE FindNearest(vs, i, j + 1, nearestIdx, nearestDist)

\* Lines 152-155: edges.some(...)
edgeExists(es, i, j) ==
    \E k \in 1..Len(es) :
        (es[k].from = i /\ es[k].to = j) \/ (es[k].from = j /\ es[k].to = i)

ConnectOneWay(g, i, nearestIdx) ==
    LET vs1 == [g.vertices EXCEPT ![i].connections = Append(@, nearestIdx)] IN
    [vertices |-> vs1,
     edges |-> IF edgeExists(g.edges, i, nearestIdx) THEN g.edges
               ELSE Append(g.edges, NewEdge(i, nearestIdx))]

\* Lines 148-164: both connection lists get the other end, and the edge is
\* pushed unless the edge list already holds the pair.
Connect(g, i, nearestIdx) ==
    LET vs1 == [g.vertices EXCEPT ![i].connections = Append(@, nearestIdx)]
        vs2 == [vs1 EXCEPT ![nearestIdx].connections = Append(@, i)]
    IN  [vertices |-> vs2,
         edges |-> IF edgeExists(g.edges, i, nearestIdx) THEN g.edges
                   ELSE Append(g.edges, NewEdge(i, nearestIdx))]

\* Lines 132-166: the connectionsNeeded rounds of vertex i's turn.
RECURSIVE ConnectionLoop(_, _, _, _)
ConnectionLoopStopsEarly(g, i, c, connectionsNeeded) ==
    IF c + 1 >= connectionsNeeded THEN g
    ELSE LET nearestIdx == FindNearest(g.vertices, i, 0, -1, 0) IN
         IF nearestIdx >= 0
         THEN ConnectionLoop(Connect(g, i, nearestIdx), i, c + 1, connectionsNeeded)
         ELSE ConnectionLoop(g, i, c + 1, connectionsNeeded)

ConnectionLoop(g, i, c, connectionsNeeded) ==
    IF c >= connectionsNeeded THEN g
    ELSE LET nearestIdx == FindNearest(g.vertices, i, 0, -1, 0) IN
         IF nearestIdx >= 0
         THEN ConnectionLoop(Connect(g, i, nearestIdx), i, c + 1, connectionsNeeded)
         ELSE ConnectionLoop(g, i, c + 1, connectionsNeeded)

\* Lines 129-167: the turns of the vertices in index order; extra[i] is
\* Math.floor(Math.random() * 2) of line 130.
RECURSIVE VertexLoop(_, _, _)
VertexLoop(g, i, extra) ==
    IF i >= Cardinality(DOMAIN g.vertices) THEN g
    ELSE VertexLoop(ConnectionLoop(g, i, 0, extra[i] + numConnections), i + 1, extra)

\* Lines 108-170: the graph built from the drawn positions pos and the
\* drawn extras.
initializePointCloud(pos, extra) ==
    VertexLoop([vertices |-> [i \in DOMAIN pos |-> NewVertex(pos[i])], edges |-> <<>>],
               0, extra)

\* The draws of one construction of n vertices.  The construction reads the
\* positions only through their distances, which the reflection
\* x -> MaxCoord - x keeps, so vertex 0 is drawn from the lower half.
GraphInputs(n) ==
    {in \in [pos : [0..(n - 1) -> Points], extra : [0..(n - 1) -> {0, 1}]] :
        2 * in.pos[0][1] <= MaxCoord}

NoInput == [pos |-> <<>>, extra |-> <<>>]

(***************************************************************************)
(* SpecGraph: initializePointCloud applied to every drawn input.           *)
(***************************************************************************)
Idle ==
    /\ view = "created"
    /\ container = FALSE
    /\ displaced = <<>>
    /\ stage = "initializing"
    /\ timers = {}
    /\ timeoutRef = 0
    /\ rafPending = 0
    /\ tweens = <<>>
    /\ nodesToGlow = <<>>
    /\ edgesToGlow = <<>>
    /\ maxGlowNodes = 0
    /\ ran = {}
    /\ attached = FALSE
    /\ rendererSize = "none"
    /\ turn = 0

InitGraph ==
    /\ Idle
    /\ vertices = <<>>
    /\ edges = <<>>
    /\ inp \in GraphInputs(GraphVertices)

BuildGraph ==
    /\ vertices = <<>>
    /\ LET g == initializePointCloud(inp.pos, inp.extra) IN
       /\ vertices' = g.vertices
       /\ edges' = g.edges
    /\ UNCHANGED <<view, container, displaced, stage, timers, timeoutRef, rafPending,
                   tweens, nodesToGlow, edgesToGlow, maxGlowNodes, ran, inp, attached,
                   rendererSize, turn>>

NextGraph == BuildGraph

SpecGraph == InitGraph /\ [][NextGraph]_vars

Built == vertices # <<>>

NumV == Cardinality(DOMAIN vertices)

SamePair(e, i, j) == (e.from = i /\ e.to = j) \/ (e.from = j /\ e.to = i)

\* C3: a graph built by initializePointCloud has no edge from a vertex to
\* itself and no two edges with the same unordered pair of ends.
C3_NoSelfLoopNoDuplicateEdge ==
    Built =>
        /\ \A k \in 1..Len(edges) : edges[k].from # edges[k].to
        /\ \A k, l \in 1..Len(edges) :
            k # l => ~SamePair(edges[k], edges[l].from, edges[l].to)

\* A built graph in which a vertex that was connected to by an earlier vertex
\* took its own turn and the edge list holds an edge made in a later turn.
C3_Witness ==
    /\ Built
    /\ \E k \in 1..Len(edges) :
        /\ edges[k].from > 0
        /\ Includes(vertices[edges[k].from].connections, 0)

CountEdges(i, j) == Cardinality({k \in 1..Len(edges) : SamePair(edges[k], i, j)})

CountIn(s, x) == Cardinality({k \in 1..Len(s) : s[k] = x})

\* C4: after initializePointCloud the adjacency is symmetric and agrees with
\* the edge list (one edge per connected pair, none otherwise), and no
\* connections list names a neighbour twice.
C4_SymmetricAdjacency ==
    Built =>
        \A i, j \in 0..(NumV - 1) :
            LET ij == Includes(vertices[i].connections, j)
                ji == Includes(vertices[j].connections, i)
                n == CountEdges(i, j)
            IN  /\ ij <=> ji
                /\ ij <=> (i # j /\ n = 1)
                /\ ~ij => n = 0
                /\ CountIn(vertices[i].connections, j) <= 1

\* A built graph with a connected pair and an unconnected pair, where the
\* higher vertex of the connected pair got the connection before its own turn.
C4_Witness ==
    /\ Built
    /\ \E i, j \in 0..(NumV - 1) :
        i # j /\ ~Includes(vertices[i].connections, j)
    /\ \E i, j \in 0..(NumV - 1) :
        /\ i < j
        /\ Includes(vertices[j].connections, i)
        /\ \E k \in 1..Len(edges) : edges[k].from = i /\ edges[k].to = j

\* C13: when there are at least numConnections other vertices, every vertex
\* of a built graph has at least numConnections connections, whatever it had
\* received from lower vertices before its own turn.
C13_MinimumDegree ==
    (Built /\ NumV - 1 >= numConnections) =>
        \A i \in DOMAIN vertices : Len(vertices[i].connections) >= numConnections

\* A built graph with a vertex of exactly numConnections connections and a
\* vertex whose first connection came from a lower vertex's turn.
C13_Witness ==
    /\ Built /\ NumV - 1 >= numConnections
    /\ \E i \in DOMAIN vertices : Len(vertices[i].connections) = numConnections
    /\ \E i \in DOMAIN vertices : i > 0 /\ vertices[i].connections[1] < i

(***************************************************************************)
(* SpecTurn: initializePointCloud one turn of the loop of line 129 at a    *)
(* time, from the vertices pushed by lines 109-124.                        *)
(***************************************************************************)
InitTurn ==
    /\ Idle
    /\ inp \in GraphInputs(GraphVertices)
    /\ vertices = [i \in DOMAIN inp.pos |-> NewVertex(inp.pos[i])]
    /\ edges = <<>>

\* Lines 129-167 for i = turn: the connectionsNeeded rounds of that vertex.
VertexTurn ==
    /\ turn < NumV
    /\ LET g == ConnectionLoop([vertices |-> vertices, edges |-> edges], turn, 0,
                               inp.extra[turn] + numConnections) IN
       /\ vertices' = g.vertices
       /\ edges' = g.edges
    /\ turn' = turn + 1
    /\ UNCHANGED <<view, container, displaced, stage, timers, timeoutRef, rafPending,
                   tweens, nodesToGlow, edgesToGlow, maxGlowNodes, ran, inp, attached,
                   rendererSize>>

NextTurn == VertexTurn

SpecTurn == InitTurn /\ [][NextTurn]_vars

Min(a, b) == IF a <= b THEN a ELSE b

\* The connections vertex i holds after the k-th addition of its turn.
Held(i, k) == {vertices'[i].connections[m] : m \in 1..(Len(vertices[i].connections) + k)}

\* j is a nearest vertex to i among those outside `held`, lowest index first.
NearestOutside(i, j, held) ==
    /\ j # i
    /\ j \notin held
    /\ \A m \in DOMAIN vertices \ ({i} \cup held) :
        LET dj == distanceTo(vertices[i].position, vertices[j].position)
            dm == distanceTo(vertices[i].position, vertices[m].position)
        IN  dj < dm \/ (dj = dm /\ j <= m)

TurnAddsNearest ==
    LET i == turn
        had == Len(vertices[i].connections)
        has == Len(vertices'[i].connections)
    IN  /\ has >= had
        /\ SubSeq(vertices'[i].connections, 1, had) = vertices[i].connections
        /\ \A k \in 1..(has - had) :
            NearestOutside(i, vertices'[i].connections[had + k], Held(i, k - 1))
        /\ has - had = Min(inp.extra[i] + numConnections, (NumV - 1) - had)

\* C16: in its turn vertex i adds connectionsNeeded connections, or as many
\* as there are unconnected vertices left, each to the nearest vertex not
\* yet connected to i at that moment, the lowest index winning ties.
C16_TurnAddsNearest == [][turn' # turn => TurnAddsNearest]_vars

\* Every turn has run: one vertex added fewer than its connectionsNeeded
\* (the edges it pushed are those it added), and one pair of vertices was
\* left unconnected.
C16_Witness ==
    /\ turn = NumV
    /\ \E i \in DOMAIN vertices :
        Cardinality({k \in 1..Len(edges) : edges[k].from = i})
            < inp.extra[i] + numConnections
    /\ \E i, j \in DOMAIN vertices : i # j /\ ~Includes(vertices[i].connections, j)

(***************************************************************************)
(* The glow propagator: startGlowingSection (lines 301-411).               *)
(***************************************************************************)

\* Number of vertices of the graphs traversed under SpecGlow.
GlowVertices == GraphVertices + 1

\* Number of Math.random() draws of line 345 the model enumerates for one
\* traversal; the draws after these skip, the more likely outcome.
RndLen == 5

\* Line 322 draws the cap 5 + Math.floor(Math.random() * 10); the model
\* draws the floor from 0..MaxCapDraw.
MaxCapDraw == 1

minGlowNodes == 5

GlowCaps == {minGlowNodes + r : r \in 0..MaxCapDraw}

RndDraws == [1..RndLen -> BOOLEAN]

\* The intensity 1 of lines 375 and 396, in percent.
FullGlow == 100

\* Line 345: Math.random() > 0.7 for the draw number `draws + 1`.
Include(rnd, draws) == draws < Len(rnd) /\ rnd[draws + 1]

findEdgeFromOnly(es, a, b) ==
    LET hits == {k \in 1..Len(es) : es[k].from = a /\ es[k].to = b}
    IN  IF hits = {} THEN 0 ELSE CHOOSE k \in hits : \A l \in hits : k <= l

\* Lines 332-335 and 349-352: edges.findIndex(...), 0 for -1.
findEdge(es, a, b) ==
    LET hits == {k \in 1..Len(es) :
                    (es[k].from = a /\ es[k].to = b) \/ (es[k].from = b /\ es[k].to = a)}
    IN  IF hits = {} THEN 0 ELSE CHOOSE k \in hits : \A l \in hits : k <= l

\* Lines 324-363.  cx holds what the closure captures (vertices, edges,
\* maxGlowNodes) and the draws rnd; st holds nodesToGlow, edgesToGlow and the
\* number of draws made so far.
RECURSIVE addConnectedVertices(_, _, _, _)
RECURSIVE ForConnections(_, _, _, _, _)
addConnectedVerticesDepthThree(cx, index, depth, st) ==
    IF depth > 3 \/ Len(st.nodesToGlow) >= cx.maxGlowNodes THEN st
    ELSE ForConnections(cx, index, depth, 1, st)

addConnectedVertices(cx, index, depth, st) ==
    IF depth > 2 \/ Len(st.nodesToGlow) >= cx.maxGlowNodes THEN st
    ELSE ForConnections(cx, index, depth, 1, st)

ForConnectionsNoBackEdge(cx, index, depth, k, st) ==
    IF k > Len(cx.vertices[index].connections) THEN st
    ELSE
      LET connectedIdx == cx.vertices[index].connections[k]
          edgeIndex == findEdge(cx.edges, index, connectedIdx)
      IN
      IF Includes(st.nodesToGlow, connectedIdx)
      THEN ForConnections(cx, index, depth, k + 1, st)
      ELSE IF Include(cx.rnd, st.draws)
      THEN LET pushed == [nodesToGlow |-> Append(st.nodesToGlow, connectedIdx),
                          edgesToGlow |-> IF edgeIndex >= 1
                                          THEN Append(st.edgesToGlow, edgeIndex)
                                          ELSE st.edgesToGlow,
                          draws |-> st.draws + 1]
               after == IF Len(pushed.nodesToGlow) < cx.maxGlowNodes
                        THEN addConnectedVertices(cx, connectedIdx, depth + 1, pushed)
                        ELSE pushed
           IN  ForConnections(cx, index, depth, k + 1, after)
      ELSE ForConnections(cx, index, depth, k + 1, [st EXCEPT !.draws = @ + 1])

\* Lines 329-362: the loop over vertex.connections, from its k-th entry on.
ForConnections(cx, index, depth, k, st) ==
    IF k > Len(cx.vertices[index].connections) THEN st
    ELSE
      LET connectedIdx == cx.vertices[index].connections[k]
          edgeIndex == findEdge(cx.edges, index, connectedIdx)
      IN
      IF Includes(st.nodesToGlow, connectedIdx)
      THEN ForConnections(cx, index, depth, k + 1,
               IF edgeIndex >= 1 /\ ~Includes(st.edgesToGlow, edgeIndex)
               THEN [st EXCEPT !.edgesToGlow = Append(@, edgeIndex)]
               ELSE st)
      ELSE IF Include(cx.rnd, st.draws)
      THEN LET pushed == [nodesToGlow |-> Append(st.nodesToGlow, connectedIdx),
                          edgesToGlow |-> IF edgeIndex >= 1
                                          THEN Append(st.edgesToGlow, edgeIndex)
                                          ELSE st.edgesToGlow,
                          draws |-> st.draws + 1]
               after == IF Len(pushed.nodesToGlow) < cx.maxGlowNodes
                        THEN addConnectedVertices(cx, connectedIdx, depth + 1, pushed)
                        ELSE pushed
           IN  ForConnections(cx, index, depth, k + 1, after)
      ELSE ForConnections(cx, index, depth, k + 1, [st EXCEPT !.draws = @ + 1])

\* Lines 316-365: the cluster selected from startIndex under the cap.
SelectCluster(vs, es, startIndex, cap, rnd) ==
    addConnectedVertices([vertices |-> vs, edges |-> es, maxGlowNodes |-> cap, rnd |-> rnd],
                         startIndex, 0,
                         [nodesToGlow |-> <<startIndex>>, edgesToGlow |-> <<>>, draws |-> 0])

\* Lines 374-388 and 395-409: the fade-in tween gsap.to(target, {glowIntensity: 1, ...}).
FadeIn(target, index) ==
    [target |-> target, index |-> index, prop |-> "glowIntensity",
     to |-> FullGlow, from |-> 0, initted |-> FALSE, time |-> 0,
     duration |-> (2500 \div 2) \div 250, ease |-> "power2.out", onComplete |-> "fadeOut"]

\* Lines 379-386 and 400-407: the fade-out tween started by the fade-in's onComplete.
FadeOut(target, index) ==
    [target |-> target, index |-> index, prop |-> "glowIntensity",
     to |-> 0, from |-> 0, initted |-> FALSE, time |-> 0,
     duration |-> (2500 \div 2) \div 250, ease |-> "power2.in", onComplete |-> "glowOff"]

ResetGlowFlagOnly(xs) == [k \in DOMAIN xs |-> [xs[k] EXCEPT !.glowing = FALSE]]

\* Lines 306-314: the reset of every vertex and edge.
ResetGlow(xs) == [k \in DOMAIN xs |-> [xs[k] EXCEPT !.glowing = FALSE, !.glowIntensity = 0]]

\* Lines 370-373 and 391-393: glowing = true on the selected elements.
MarkGlowing(xs, sel) ==
    [k \in DOMAIN xs |-> IF Includes(sel, k) THEN [xs[k] EXCEPT !.glowing = TRUE] ELSE xs[k]]

\* Lines 301-411: the reset, the traversal, the marks and the tweens started.
startGlowingSection(vs, es, startIndex, cap, rnd) ==
    LET sel == SelectCluster(vs, es, startIndex, cap, rnd) IN
    [vertices |-> MarkGlowing(ResetGlow(vs), sel.nodesToGlow),
     edges |-> MarkGlowing(ResetGlow(es), sel.edgesToGlow),
     started |-> [k \in 1..Len(sel.nodesToGlow) |-> FadeIn("vertex", sel.nodesToGlow[k])]
                 \o [k \in 1..Len(sel.edgesToGlow) |-> FadeIn("edge", sel.edgesToGlow[k])],
     nodesToGlow |-> sel.nodesToGlow,
     edgesToGlow |-> sel.edgesToGlow]

(***************************************************************************)
(* SpecGlow: one glow trigger on every graph built from the drawn clouds.  *)
(***************************************************************************)

\* The clouds of the graphs under SpecGlow: every vertex at one of the two
\* ends of the coordinate range, every vertex with the same extra draw.
\* Swapping the two ends keeps every distance, so vertex 0 is put at 0.
GlowInputs(n) ==
    {[pos |-> p, extra |-> [i \in 0..(n - 1) |-> e]] :
        p \in {q \in [0..(n - 1) -> {<<0, 0, 0>>, <<MaxCoord, 0, 0>>}] : q[0][1] = 0},
        e \in {0, 1}}

InitGlow ==
    /\ Idle
    /\ inp \in GlowInputs(GlowVertices)
    /\ LET g == initializePointCloud(inp.pos, inp.extra) IN
       /\ vertices = g.vertices
       /\ edges = g.edges

TriggerGlow ==
    /\ nodesToGlow = <<>>
    /\ \E startIndex \in DOMAIN vertices, cap \in GlowCaps, rnd \in RndDraws :
        LET r == startGlowingSection(vertices, edges, startIndex, cap, rnd) IN
        /\ vertices' = r.vertices
        /\ edges' = r.edges
        /\ tweens' = tweens \o r.started
        /\ nodesToGlow' = r.nodesToGlow
        /\ edgesToGlow' = r.edgesToGlow
        /\ maxGlowNodes' = cap
    /\ UNCHANGED <<view, container, displaced, stage, timers, timeoutRef, rafPending,
                   ran, inp, attached,
                   rendererSize, turn>>

NextGlow == TriggerGlow

SpecGlow == InitGlow /\ [][NextGlow]_vars

\* C5: the traversal never selects more vertices than the cap drawn for the
\* trigger.
C5_SelectionWithinCap ==
    nodesToGlow # <<>> => Len(nodesToGlow) <= maxGlowNodes

\* C20: a traversal of a built graph marks no edge twice, marks only edges
\* with both ends selected, and marks an edge at every selected vertex other
\* than the seed.
C20_MarkedEdgesJoinSelected ==
    nodesToGlow # <<>> =>
        /\ \A k, l \in 1..Len(edgesToGlow) : k # l => edgesToGlow[k] # edgesToGlow[l]
        /\ \A k \in 1..Len(edgesToGlow) :
            /\ Includes(nodesToGlow, edges[edgesToGlow[k]].from)
            /\ Includes(nodesToGlow, edges[edgesToGlow[k]].to)
        /\ \A m \in 2..Len(nodesToGlow) :
            \E k \in 1..Len(edgesToGlow) :
                \/ edges[edgesToGlow[k]].from = nodesToGlow[m]
                \/ edges[edgesToGlow[k]].to = nodesToGlow[m]

\* A traversal that marked an edge between two vertices already selected
\* and reached a vertex along an edge from its `to` end.
C20_Witness ==
    /\ Len(nodesToGlow) >= 3
    /\ Len(edgesToGlow) >= Len(nodesToGlow)
    /\ \E m \in 2..Len(nodesToGlow) :
        edges[edgesToGlow[m - 1]].from = nodesToGlow[m]

(***************************************************************************)
(* SpecLine: one glow trigger on the graph initializePointCloud builds     *)
(* from vertices spread along a line, a cloud long enough to hold vertices *)
(* more than three edges from the seed.                                    *)
(***************************************************************************)

\* Number of vertices of the cloud on the line.
LineVertices == 14

\* Number of Math.random() draws of line 345 enumerated one by one for a
\* traversal of the line; the draws after these all come out alike.
LineRndLen == 3

\* The caps of the traversals of the line: the least and the greatest cap
\* line 322 draws.
LineCaps == {minGlowNodes, minGlowNodes + 9}

\* The outcomes of line 345 for a traversal of the line, one per draw.
LineDraws ==
    {prefix \o [k \in 1..(LineVertices * LineVertices) |-> rest] :
        prefix \in [1..LineRndLen -> BOOLEAN], rest \in BOOLEAN}

\* The draws of one run: vertex i at i steps along the x axis (the builder
\* reads positions only by comparing distances, so the length of a step
\* is free), every vertex with the same extra draw, and the draws of the
\* traversal.
LineInputs ==
    {[pos |-> [i \in 0..(LineVertices - 1) |-> <<i, 0, 0>>],
      extra |-> [i \in 0..(LineVertices - 1) |-> e],
      rnd |-> r] : e \in {0, 1}, r \in LineDraws}

InitLine ==
    /\ Idle
    /\ inp \in LineInputs
    /\ LET g == initializePointCloud(inp.pos, inp.extra) IN
       /\ vertices = g.vertices
       /\ edges = g.edges

TriggerLine ==
    /\ nodesToGlow = <<>>
    /\ \E startIndex \in DOMAIN vertices, cap \in LineCaps :
        LET r == startGlowingSection(vertices, edges, startIndex, cap, inp.rnd) IN
        /\ vertices' = r.vertices
        /\ edges' = r.edges
        /\ tweens' = tweens \o r.started
        /\ nodesToGlow' = r.nodesToGlow
        /\ edgesToGlow' = r.edgesToGlow
        /\ maxGlowNodes' = cap
    /\ UNCHANGED <<view, container, displaced, stage, timers, timeoutRef, rafPending,
                   ran, inp, attached, rendererSize, turn>>

NextLine == TriggerLine

SpecLine == InitLine /\ [][NextLine]_vars

Range(s) == {s[k] : k \in 1..Len(s)}

AlwaysIncludes == \A k \in 1..Len(inp.rnd) : inp.rnd[k]

(***************************************************************************)
(* SpecSquare: the forced scenario of the traversal on the square.  The    *)
(* component never holds this graph, and Math.random() never gives a cap   *)
(* of 4: the adjacency 0-1, 1-2, 2-3, 3-0 and the outcomes of the random   *)
(* source are forced as a test of lines 316-365 would force them, and      *)
(* startGlowingSection runs on them as the code runs.                      *)
(***************************************************************************)

\* Number of draws of line 345 enumerated one by one for a traversal of
\* the square; the draws after these all come out alike.
SquareRndLen == 2

\* The forced outcomes of line 345, one per draw; a traversal of the
\* square makes at most two draws at each of its four vertices.
SquareDraws ==
    {prefix \o [k \in 1..(2 * 4) |-> rest] :
        prefix \in [1..SquareRndLen -> BOOLEAN], rest \in BOOLEAN}

\* The forced square: edge k joins k - 1 and k mod 4, and order[i] tells
\* which neighbour comes first in vertex i's connections.
Square(order) ==
    [vertices |->
        [i \in 0..3 |->
            [NewVertex(<<0, 0, 0>>) EXCEPT
                !.connections = IF order[i]
                                THEN <<(i + 1) % 4, (i + 3) % 4>>
                                ELSE <<(i + 3) % 4, (i + 1) % 4>>]],
     edges |-> [k \in 1..4 |-> NewEdge(k - 1, k % 4)]]

\* The forced outcomes of Math.floor(Math.random() * 10) of line 322: -1,
\* from a forced draw below 0 (such as -0.05), which makes the cap 4, and
\* 0, from the least draw Math.random() gives, which makes it 5.
SquareCapDraws == {-1, 0}

SquareInputs == [order : [0..3 -> BOOLEAN], rnd : SquareDraws]

InitSquare ==
    /\ Idle
    /\ inp \in SquareInputs
    /\ LET g == Square(inp.order) IN
       /\ vertices = g.vertices
       /\ edges = g.edges

\* startGlowingSection from any seed; line 322 adds 5 to the floor the
\* random source gives.
TriggerSquare ==
    /\ nodesToGlow = <<>>
    /\ \E startIndex \in DOMAIN vertices, capDraw \in SquareCapDraws :
        LET cap == capDraw + minGlowNodes
            r == startGlowingSection(vertices, edges, startIndex, cap, inp.rnd) IN
        /\ vertices' = r.vertices
        /\ edges' = r.edges
        /\ tweens' = tweens \o r.started
        /\ nodesToGlow' = r.nodesToGlow
        /\ edgesToGlow' = r.edgesToGlow
        /\ maxGlowNodes' = cap
    /\ UNCHANGED <<view, container, displaced, stage, timers, timeoutRef, rafPending,
                   ran, inp, attached, rendererSize, turn>>

NextSquare == TriggerSquare

SpecSquare == InitSquare /\ [][NextSquare]_vars

\* C12: on the square, whatever the order of the connections lists and the
\* seed, a traversal whose every draw includes, under a cap of 4, selects
\* all 4 vertices and marks all 4 edges, each once.
C12_SquareFullySelected ==
    (nodesToGlow # <<>> /\ NumV = 4 /\ maxGlowNodes = 4 /\ AlwaysIncludes) =>
        /\ Range(nodesToGlow) = 0..3
        /\ Range(edgesToGlow) = 1..4
        /\ Len(edgesToGlow) = 4

\* Such a traversal has run from a seed other than vertex 0 whose
\* connections list names the higher neighbour first.
C12_Witness ==
    /\ nodesToGlow # <<>> /\ NumV = 4 /\ maxGlowNodes = 4 /\ AlwaysIncludes
    /\ nodesToGlow[1] = 2
    /\ vertices[2].connections = <<3, 1>>
    /\ Len(nodesToGlow) = 4

\* The vertices joined to a vertex of S by a path of at most d edges.
RECURSIVE Reach(_, _, _)
Reach(vs, S, d) ==
    IF d = 0 THEN S
    ELSE Reach(vs, S \cup {j \in DOMAIN vs : \E i \in S : Includes(vs[i].connections, j)},
               d - 1)

\* C17: the traversal expands no vertex at a depth above 2, so every
\* selected vertex is joined to the seed by a path of at most 3 edges of
\* the built graph.
C17_SelectedWithinThreeEdges ==
    nodesToGlow # <<>> =>
        Range(nodesToGlow) \subseteq Reach(vertices, {nodesToGlow[1]}, 3)

\* A traversal whose every draw includes stopped below its cap: it selected
\* vertices three edges from the seed and left a vertex four edges away.
C17_Witness ==
    /\ nodesToGlow # <<>> /\ AlwaysIncludes
    /\ Len(nodesToGlow) < maxGlowNodes
    /\ \E v \in Range(nodesToGlow) : v \notin Reach(vertices, {nodesToGlow[1]}, 2)
    /\ \E v \in DOMAIN vertices : v \notin Reach(vertices, {nodesToGlow[1]}, 3)

(***************************************************************************)
(* gsap: the tweens of the global timeline and the ticker that renders     *)
(* them.  A tween reads its start value at its first render, writes the    *)
(* eased value at every tick and calls onComplete inside the tick that     *)
(* reaches its duration; the timeline renders its tweens in start order.   *)
(***************************************************************************)
circleRadius == 4

\* gsap's power2 is the cubic curve.  Numerator of the eased progress at
\* time t of d, over the denominator d * d * d.
EaseNum(ease, t, d) ==
    CASE ease = "power2.out" -> d * d * d - (d - t) * (d - t) * (d - t)
      [] ease = "power2.in" -> t * t * t
      [] ease = "power2.inOut" -> IF 2 * t < d THEN 4 * t * t * t
                                  ELSE d * d * d - 4 * (d - t) * (d - t) * (d - t)

Interpolate(a, b, ease, t, d) == a + ((b - a) * EaseNum(ease, t, d)) \div (d * d * d)

\* The value a tween writes at time t: a number for glowIntensity, a vector
\* for position.
TweenValue(tw, from, t) ==
    IF t >= tw.duration THEN tw.to
    ELSE IF tw.prop = "position"
         THEN <<Interpolate(from[1], tw.to[1], tw.ease, t, tw.duration),
                Interpolate(from[2], tw.to[2], tw.ease, t, tw.duration),
                Interpolate(from[3], tw.to[3], tw.ease, t, tw.duration)>>
         ELSE Interpolate(from, tw.to, tw.ease, t, tw.duration)

\* The property a tween animates, as it is now.
CurrentValue(w, tw) ==
    IF tw.prop = "position" THEN w.vertices[tw.index].position
    ELSE IF tw.target = "vertex" THEN w.vertices[tw.index].glowIntensity
    ELSE w.edges[tw.index].glowIntensity

WriteValue(w, tw, v) ==
    IF tw.prop = "position"
    THEN [w EXCEPT !.vertices[tw.index].position = v, !.displaced[tw.index] = FALSE]
    ELSE IF tw.target = "vertex" THEN [w EXCEPT !.vertices[tw.index].glowIntensity = v]
    ELSE [w EXCEPT !.edges[tw.index].glowIntensity = v]

OnCompleteBackToInitializing(w, tw) ==
    CASE tw.onComplete = "stable" -> [w EXCEPT !.stage = "initializing"]
      [] tw.onComplete = "fadeOut" ->
            [w EXCEPT !.started = Append(@, FadeOut(tw.target, tw.index))]
      [] tw.onComplete = "glowOff" /\ tw.target = "vertex" ->
            [w EXCEPT !.vertices[tw.index].glowing = FALSE]
      [] tw.onComplete = "glowOff" /\ tw.target = "edge" ->
            [w EXCEPT !.edges[tw.index].glowing = FALSE]
      [] OTHER -> w

\* The onComplete callbacks: lines 283-287 (the last vertex's position tween
\* sets the stage), 378-387 and 399-408 (the fade-in starts the fade-out,
\* the fade-out clears glowing).
OnComplete(w, tw) ==
    CASE tw.onComplete = "stable" -> [w EXCEPT !.stage = "stable"]
      [] tw.onComplete = "fadeOut" ->
            [w EXCEPT !.started = Append(@, FadeOut(tw.target, tw.index))]
      [] tw.onComplete = "glowOff" /\ tw.target = "vertex" ->
            [w EXCEPT !.vertices[tw.index].glowing = FALSE]
      [] tw.onComplete = "glowOff" /\ tw.target = "edge" ->
            [w EXCEPT !.edges[tw.index].glowing = FALSE]
      [] OTHER -> w

\* One tween rendered one time unit later.  A position tween that ends
\* leaves the vertex exactly on its target.
RenderTween(w, tw) ==
    LET t == tw.time + 1
        from == IF tw.initted THEN tw.from ELSE CurrentValue(w, tw)
        w1 == WriteValue(w, tw, TweenValue(tw, from, t))
    IN  IF t >= tw.duration
        THEN OnComplete(w1, tw)
        ELSE [w1 EXCEPT !.kept =
                 Append(@, [tw EXCEPT !.time = t, !.from = from, !.initted = TRUE])]

\* The timeline's render loop over the tweens in flight, in order; a tween
\* started by a callback of this tick is first rendered by the next tick.
RECURSIVE RenderFrom(_, _, _)
RenderFrom(w, tws, k) ==
    IF k > Len(tws) THEN w ELSE RenderFrom(RenderTween(w, tws[k]), tws, k + 1)

gsapTick(vs, es, st, disp, tws) ==
    RenderFrom([vertices |-> vs, edges |-> es, stage |-> st, displaced |-> disp,
                kept |-> <<>>, started |-> <<>>], tws, 1)

(***************************************************************************)
(* setCircleTargets (lines 262-290).                                       *)
(***************************************************************************)

\* radius * sin of d degrees, 0 <= d < 360 (Bhaskara's rational form of the sine).
SinTimes(radius, d) ==
    IF d <= 180
    THEN (radius * 4 * d * (180 - d)) \div (40500 - d * (180 - d))
    ELSE 0 - (radius * 4 * (d - 180) * (360 - d)) \div (40500 - (d - 180) * (360 - d))

CosTimes(radius, d) == SinTimes(radius, (d + 90) % 360)

\* Lines 267-270: the point of vertex i of n on the circle, z drawn.
CircleTarget(i, n, z) ==
    <<CosTimes(circleRadius, (360 * i) \div n), SinTimes(circleRadius, (360 * i) \div n), z>>

PositionTweenIndexedDuration(i, n, to) ==
    [target |-> "vertex", index |-> i, prop |-> "position",
     to |-> to, from |-> to, initted |-> FALSE, time |-> 0,
     duration |-> 15000 \div 250 - i, ease |-> "power2.inOut",
     onComplete |-> IF i = n - 1 THEN "stable" ELSE "none"]

\* Lines 277-288: the position tween of vertex i of n.
PositionTween(i, n, to) ==
    [target |-> "vertex", index |-> i, prop |-> "position",
     to |-> to, from |-> to, initted |-> FALSE, time |-> 0,
     duration |-> 15000 \div 250, ease |-> "power2.inOut",
     onComplete |-> IF i = n - 1 THEN "stable" ELSE "none"]

\* Lines 265-273: every vertex gets its target.
WithCircleTargets(vs, zs) ==
    [i \in DOMAIN vs |->
        [vs[i] EXCEPT !.targetPosition = CircleTarget(i, Cardinality(DOMAIN vs), zs[i])]]

setCircleTargets(vs, zs) ==
    LET n == Cardinality(DOMAIN vs)
        vs1 == WithCircleTargets(vs, zs)
    IN  [vertices |-> vs1,
         started |-> [k \in 1..n |-> PositionTween(k - 1, n, vs1[k - 1].targetPosition)]]

(***************************************************************************)
(* Spec: the mounted view.  Time passes in Tick, which also runs gsap's    *)
(* ticker; a timer fires once its delay has passed; frames, timers and     *)
(* the unmount interleave freely.                                          *)
(***************************************************************************)

\* Number of vertices of the view under Spec.
ViewVertices == 2

\* Line 293 draws the delay 2000 + Math.random() * 3000 ms; the model draws
\* it from 2000 ms to 2000 + 250 * MaxDelayDraw ms.
MaxDelayDraw == 3

GlowDelays == {2000 \div 250 + r : r \in 0..MaxDelayDraw}

\* The caps drawn under Spec: the view's graph has fewer vertices than the
\* least cap, so every cap selects alike.
ViewCaps == {minGlowNodes}

\* The draws of line 345 enumerated for one traversal of the view's graph.
ViewRndDraws == [1..ViewVertices -> BOOLEAN]

\* Line 270: z = (Math.random() - 0.5) * 0.5 lies in [-0.25, 0.25), which
\* is 0 as an integer coordinate, for every vertex.
ZDraws(n) == {[i \in 0..(n - 1) |-> 0]}

\* The clouds of the view under Spec: all vertices on one point, or spread
\* over the coordinate range.
ViewInputs(n) ==
    {[pos |-> [i \in 0..(n - 1) |-> <<(i * s) % (MaxCoord + 1), 0, 0>>],
      extra |-> [i \in 0..(n - 1) |-> s]] : s \in {0, 1}}

\* setTimeout: the handle of a new timer, the smallest one not pending.
NewHandle(ts) == CHOOSE h \in 1..(Cardinality(ts) + 1) : \A t \in ts : t.id # h

setTimeout(ts, kind, delay) ==
    ts \cup {[id |-> NewHandle(ts), kind |-> kind, remaining |-> delay]}

clearTimeoutNothing(ts, handle) == ts

\* clearTimeout: the timer of that handle is no longer pending.
clearTimeout(ts, handle) == {t \in ts : t.id # handle}

JitterInEveryStage(disp, st) == [i \in DOMAIN disp |-> TRUE]

\* Lines 421-440: the jitter of one frame; in `forming` the loop moves nothing.
Jitter(disp, st) ==
    IF st \in {"stable", "initializing"} THEN [i \in DOMAIN disp |-> TRUE] ELSE disp

Note(op) == IF view = "unmounted" THEN ran \cup {op} ELSE ran

Init ==
    /\ Idle
    /\ vertices = <<>>
    /\ edges = <<>>
    /\ inp = NoInput

\* window.innerWidth x window.innerHeight: the shapes of the window the
\* model tells apart.
WindowSizes == {"wide", "tall"}

MountWithoutContainerCheck ==
    /\ view = "created"
    /\ view' = "mounted"
    /\ \E c \in BOOLEAN :
        /\ container' = c
        /\ \E in \in ViewInputs(ViewVertices), delay \in GlowDelays, size \in WindowSizes :
                LET g == initializePointCloud(in.pos, in.extra)
                    ts == setTimeout({}, "forming", 2000 \div 250)
                    ts2 == setTimeout(ts, "glow", delay)
                IN  /\ rendererSize' = size
                    /\ attached' = TRUE
                    /\ vertices' = g.vertices
                    /\ edges' = g.edges
                    /\ displaced' = Jitter([i \in DOMAIN g.vertices |-> FALSE], stage)
                    /\ rafPending' = rafPending + 1
                    /\ timers' = ts2
                    /\ timeoutRef' = NewHandle(ts)
    /\ UNCHANGED <<stage, tweens, nodesToGlow, edgesToGlow, maxGlowNodes, ran, inp, turn>>

\* Lines 43-89: the effect.  Without a container it returns at line 44.
\* Otherwise it sizes the renderer and attaches its canvas (lines 62-63),
\* builds the graph (line 66), runs the first frame (line 80), arms the
\* 2 s timer (line 83) and schedules the first glow (line 89).
Mount ==
    /\ view = "created"
    /\ view' = "mounted"
    /\ \E c \in BOOLEAN :
        /\ container' = c
        /\ IF c
           THEN \E in \in ViewInputs(ViewVertices), delay \in GlowDelays, size \in WindowSizes :
                LET g == initializePointCloud(in.pos, in.extra)
                    ts == setTimeout({}, "forming", 2000 \div 250)
                    ts2 == setTimeout(ts, "glow", delay)
                IN  /\ rendererSize' = size
                    /\ attached' = TRUE
                    /\ vertices' = g.vertices
                    /\ edges' = g.edges
                    /\ displaced' = Jitter([i \in DOMAIN g.vertices |-> FALSE], stage)
                    /\ rafPending' = rafPending + 1
                    /\ timers' = ts2
                    /\ timeoutRef' = NewHandle(ts)
           ELSE UNCHANGED <<vertices, edges, displaced, rafPending, timers, timeoutRef,
                            attached, rendererSize>>
    /\ UNCHANGED <<stage, tweens, nodesToGlow, edgesToGlow, maxGlowNodes, ran, inp, turn>>

ResizeMovesTargets ==
    /\ view = "mounted"
    /\ container
    /\ \E size \in WindowSizes : rendererSize' = size
    /\ vertices' = [i \in DOMAIN vertices |->
                        [vertices[i] EXCEPT !.targetPosition = vertices[i].position]]
    /\ UNCHANGED <<view, container, edges, displaced, stage, timers, timeoutRef,
                   rafPending, tweens, nodesToGlow, edgesToGlow, maxGlowNodes, ran, inp,
                   attached, turn>>

\* Lines 69-77: handleResize, the window's resize listener, registered by
\* the effect at line 77 and removed by its cleanup at line 97.  The refs of
\* line 70 are set once the effect has run with a container.
Resize ==
    /\ view = "mounted"
    /\ container
    /\ \E size \in WindowSizes : rendererSize' = size
    /\ UNCHANGED <<view, container, vertices, edges, displaced, stage, timers, timeoutRef,
                   rafPending, tweens, nodesToGlow, edgesToGlow, maxGlowNodes, ran, inp,
                   attached, turn>>

\* Lines 413-449: one frame.  The host takes the callback off its queue and
\* the frame requests the next one first (line 414);
\* the refs of line 416 are set once the effect has run with a container
\* and are never cleared.
Animate ==
    /\ rafPending > 0
    /\ rafPending' = (rafPending - 1) + 1
    /\ displaced' = Jitter(displaced, stage)
    /\ ran' = Note("animate")
    /\ UNCHANGED <<view, container, vertices, edges, stage, timers, timeoutRef, tweens,
                   nodesToGlow, edgesToGlow, maxGlowNodes, inp, attached,
                   rendererSize, turn>>

\* Lines 83-86: the callback of the 2 s timer.
FormingTimer ==
    /\ \E t \in timers :
        /\ t.kind = "forming"
        /\ t.remaining = 0
        /\ \E zs \in ZDraws(Cardinality(DOMAIN vertices)) :
            LET r == setCircleTargets(vertices, zs) IN
            /\ vertices' = r.vertices
            /\ tweens' = tweens \o r.started
        /\ timers' = timers \ {t}
    /\ stage' = "forming"
    /\ ran' = Note("formingTimer")
    /\ UNCHANGED <<view, container, edges, displaced, timeoutRef, rafPending,
                   nodesToGlow, edgesToGlow, maxGlowNodes, inp, attached,
                   rendererSize, turn>>

GlowTimerSchedulesTwice ==
    /\ \E t \in timers :
        /\ t.kind = "glow"
        /\ t.remaining = 0
        /\ \E startIndex \in DOMAIN vertices, cap \in ViewCaps, rnd \in ViewRndDraws,
              delay \in GlowDelays :
            LET r == startGlowingSection(vertices, edges, startIndex, cap, rnd) IN
            /\ vertices' = r.vertices
            /\ edges' = r.edges
            /\ tweens' = tweens \o r.started
            /\ nodesToGlow' = r.nodesToGlow
            /\ edgesToGlow' = r.edgesToGlow
            /\ maxGlowNodes' = cap
            /\ timers' = setTimeout(setTimeout(timers \ {t}, "glow", delay), "glow", delay)
            /\ timeoutRef' = NewHandle(timers \ {t})
    /\ ran' = Note("glowTimer")
    /\ UNCHANGED <<view, container, displaced, stage, rafPending, inp, attached,
                   rendererSize, turn>>

\* Lines 295-298: the callback of the glow timer: the pulse, then
\* scheduleGlowingSection (lines 292-299), which keeps the new handle.
GlowTimer ==
    /\ \E t \in timers :
        /\ t.kind = "glow"
        /\ t.remaining = 0
        /\ \E startIndex \in DOMAIN vertices, cap \in ViewCaps, rnd \in ViewRndDraws,
              delay \in GlowDelays :
            LET r == startGlowingSection(vertices, edges, startIndex, cap, rnd) IN
            /\ vertices' = r.vertices
            /\ edges' = r.edges
            /\ tweens' = tweens \o r.started
            /\ nodesToGlow' = r.nodesToGlow
            /\ edgesToGlow' = r.edgesToGlow
            /\ maxGlowNodes' = cap
            /\ timers' = setTimeout(timers \ {t}, "glow", delay)
            /\ timeoutRef' = NewHandle(timers \ {t})
    /\ ran' = Note("glowTimer")
    /\ UNCHANGED <<view, container, displaced, stage, rafPending, inp, attached,
                   rendererSize, turn>>

\* One time unit passes: the pending timers come one unit closer and gsap's
\* ticker renders the tweens.  A timer that is due fires before more time
\* passes.
Tick ==
    /\ view # "created"
    /\ \A t \in timers : t.remaining > 0
    /\ timers' = {[t EXCEPT !.remaining = @ - 1] : t \in timers}
    /\ LET w == gsapTick(vertices, edges, stage, displaced, tweens) IN
       /\ vertices' = w.vertices
       /\ edges' = w.edges
       /\ stage' = w.stage
       /\ displaced' = w.displaced
       /\ tweens' = w.kept \o w.started
    /\ UNCHANGED <<view, container, timeoutRef, rafPending, nodesToGlow, edgesToGlow,
                   maxGlowNodes, ran, inp, attached,
                   rendererSize, turn>>

\* Lines 91-101: the cleanup the effect returned (none was returned when
\* the effect left at line 44).  `current` is containerRef.current as the
\* cleanup reads it at line 92: the host may have detached the ref by then,
\* and the canvas is removed only when it is still set.
Unmount ==
    /\ view = "mounted"
    /\ view' = "unmounted"
    /\ \E current \in BOOLEAN :
        attached' = IF container /\ current THEN FALSE ELSE attached
    /\ timers' = IF container /\ timeoutRef # 0 THEN clearTimeout(timers, timeoutRef)
                 ELSE timers
    /\ UNCHANGED <<container, vertices, edges, displaced, stage, timeoutRef, rafPending,
                   tweens, nodesToGlow, edgesToGlow, maxGlowNodes, ran, inp,
                   rendererSize, turn>>

Next ==
    \/ Mount
    \/ Animate
    \/ FormingTimer
    \/ GlowTimer
    \/ Tick
    \/ Resize
    \/ Unmount

Spec == Init /\ [][Next]_vars

(***************************************************************************)
(* Properties of the mounted view.                                         *)
(***************************************************************************)
StageStep ==
    \/ stage' = stage
    \/ stage = "initializing" /\ stage' = "forming"
    \/ stage = "forming" /\ stage' = "stable"

\* C1: the stage starts at initializing and every change of it is
\* initializing -> forming or forming -> stable, so each happens at most
\* once and stable is never left.
C1_StageOrder == stage = "initializing" /\ [][StageStep]_vars

\* The view has gone through both transitions.
C1_Witness == view = "mounted" /\ stage = "stable"

PositionInFlight == \E k \in 1..Len(tweens) : tweens[k].prop = "position"

\* C2: no position tween is in flight once the stage is stable, and none
\* has been started while the stage is initializing.
C2_StableAfterConvergence ==
    /\ stage = "stable" => ~PositionInFlight
    /\ stage = "initializing" => ~PositionInFlight

\* The tick that completed the position tweens: the stage is stable and
\* every vertex sits on its circle target, which differs from where it started.
C2_Witness ==
    /\ stage = "stable"
    /\ \A i \in DOMAIN vertices :
        /\ vertices[i].position = vertices[i].targetPosition
        /\ vertices[i].position # vertices[i].initialPosition
        /\ ~displaced[i]

GlowInFlight(target, index) ==
    \E k \in 1..Len(tweens) :
        /\ tweens[k].prop = "glowIntensity"
        /\ tweens[k].target = target
        /\ tweens[k].index = index

\* C6: a vertex or edge on which a fade-in or fade-out of a pulse is still
\* in flight has glowing = true.
C6_GlowingUntilFadeOut ==
    /\ \A i \in DOMAIN vertices : GlowInFlight("vertex", i) => vertices[i].glowing
    /\ \A k \in DOMAIN edges : GlowInFlight("edge", k) => edges[k].glowing

\* The step completes a fade-out on the element: a fade-out tween on it was
\* one time unit from its end and is gone from the timeline.
FadeOutCompletes(target, index) ==
    \E k \in 1..Len(tweens) :
        /\ tweens[k].onComplete = "glowOff"
        /\ tweens[k].target = target
        /\ tweens[k].index = index
        /\ tweens[k].time + 1 >= tweens[k].duration
        /\ \A j \in 1..Len(tweens') :
            tweens'[j].prop # "glowIntensity" \/ tweens'[j] # tweens[k]

\* C7: a step that completes a fade-out on a vertex or edge leaves it with
\* glowing = false and glowIntensity = 0.
C7_DarkAfterFadeOut ==
    [][/\ \A i \in DOMAIN vertices :
            FadeOutCompletes("vertex", i) =>
                ~vertices'[i].glowing /\ vertices'[i].glowIntensity = 0
       /\ \A k \in DOMAIN edges :
            FadeOutCompletes("edge", k) =>
                ~edges'[k].glowing /\ edges'[k].glowIntensity = 0]_vars

GlowTimerPending == \E t \in timers : t.kind = "glow"

\* C8: once the cleanup has run, no glow timer is pending and
\* startGlowingSection never runs again.
C8_NoGlowAfterUnmount ==
    view = "unmounted" => ~GlowTimerPending /\ "glowTimer" \notin ran

\* The view was unmounted after a pulse had been triggered and rescheduled,
\* while that pulse was still fading, and frames have run since.
C8_Witness ==
    /\ view = "unmounted"
    /\ nodesToGlow # <<>>
    /\ GlowInFlight("vertex", nodesToGlow[1])
    /\ "animate" \in ran

\* C9: once the cleanup has run, no timer callback of the view runs: neither
\* the 2 s lifecycle timer nor the glow timer.
C9_NoTimerAfterUnmount ==
    view = "unmounted" => "formingTimer" \notin ran /\ "glowTimer" \notin ran

\* C10: once the cleanup has run, no frame of animate runs, and while the
\* view is mounted a next frame is always requested.
C10_LoopStopsAtUnmount ==
    /\ view = "unmounted" => "animate" \notin ran
    /\ view = "mounted" /\ container => rafPending = 1

\* C11: when the container is absent at mount, the effect does nothing: no
\* graph, no canvas attached, no frame requested, no timer armed, no tween,
\* and the stage stays initializing, from then on.
C11_NoContainerNoEffect ==
    view # "created" /\ ~container =>
        /\ vertices = <<>> /\ edges = <<>>
        /\ ~attached /\ rendererSize = "none"
        /\ rafPending = 0
        /\ timers = {} /\ timeoutRef = 0
        /\ tweens = <<>> /\ nodesToGlow = <<>>
        /\ stage = "initializing"

\* The view was mounted without a container and has since been unmounted.
C11_Witness == view = "unmounted" /\ ~container

TweenTimes == [k \in 1..Len(tweens) |-> tweens[k].time]

\* A step that is neither a timer callback nor a tick of gsap: the timers
\* and the progress of the tweens are as before.
NoTimerNoRender == timers' = timers /\ TweenTimes' = TweenTimes

\* C14: while the stage is forming, the frame loop moves no vertex, and a
\* step that is neither a timer callback nor a render of the tweens changes
\* no position, targetPosition, glow field or the stage: positions change
\* only through the position tweens.
C14_FormingFrameMovesNothing ==
    [][stage = "forming" =>
        /\ \A i \in DOMAIN displaced : displaced'[i] => displaced[i]
        /\ NoTimerNoRender =>
                vertices' = vertices /\ edges' = edges /\ stage' = stage]_vars

\* The stage is forming, it was when the view was unmounted, and frames
\* have run since; the tweens have moved the vertices and no frame has.
C14_Witness ==
    /\ stage = "forming"
    /\ "animate" \in ran /\ "formingTimer" \notin ran
    /\ \A i \in DOMAIN vertices :
        ~displaced[i] /\ vertices[i].position # vertices[i].initialPosition

\* The vertices the step keeps: every index once the graph is built.
Kept == DOMAIN vertices \cap DOMAIN vertices'

TargetsAssigned ==
    \A i \in DOMAIN vertices' : vertices'[i].targetPosition = CircleTarget(i, NumV, 0)

\* C15: targetPosition equals initialPosition as long as the stage is
\* initializing; the step from initializing to forming assigns every
\* targetPosition its point on the circle and no other step (frame, glow
\* trigger, tween render or callback, resize, forming -> stable, unmount)
\* changes a targetPosition; no step changes an initialPosition.
C15_TargetAssignedOnce ==
    [][/\ stage' = "initializing" =>
            \A i \in DOMAIN vertices' :
                vertices'[i].targetPosition = vertices'[i].initialPosition
       /\ (stage = "initializing" /\ stage' = "forming") => TargetsAssigned
       /\ ~(stage = "initializing" /\ stage' = "forming") =>
            \A i \in Kept : vertices'[i].targetPosition = vertices[i].targetPosition
       /\ \A i \in Kept : vertices'[i].initialPosition = vertices[i].initialPosition]_vars

\* The view is stable after a resize, with a pulse fading: every vertex
\* sits on the target assigned at the transition, away from where it began.
C15_Witness ==
    /\ stage = "stable"
    /\ rendererSize = "tall"
    /\ nodesToGlow # <<>> /\ GlowInFlight("vertex", nodesToGlow[1])
    /\ \E i \in DOMAIN vertices :
        /\ vertices[i].targetPosition # vertices[i].initialPosition
        /\ vertices[i].position = vertices[i].targetPosition

GlowTimers == {t \in timers : t.kind = "glow"}

\* C18: while the view is mounted with its container, exactly one glow
\* timer is pending and timeoutRef holds its handle.
C18_OneGlowTimer ==
    (view = "mounted" /\ container) =>
        /\ Cardinality(GlowTimers) = 1
        /\ \A t \in GlowTimers : t.id = timeoutRef

\* The mounted view after a pulse: the 2 s timer has fired and the glow
\* timer pending is a successor that took over its handle.
C18_Witness ==
    /\ view = "mounted" /\ container
    /\ nodesToGlow # <<>>
    /\ stage # "initializing"
    /\ timeoutRef = 1

\* The step is a firing of the glow timer: it was due and its successor
\* is pending.
Triggered ==
    /\ \E t \in GlowTimers : t.remaining = 0
    /\ \E t \in GlowTimers' : t.remaining > 0

\* C19: when a pulse has been triggered, every vertex and edge outside the
\* selected cluster has glowing = false and glowIntensity = 0, whatever the
\* earlier pulses had left on it.
C19_OthersDarkAtTrigger ==
    [][Triggered =>
        /\ \A i \in DOMAIN vertices' :
            ~Includes(nodesToGlow', i) =>
                ~vertices'[i].glowing /\ vertices'[i].glowIntensity = 0
        /\ \A k \in DOMAIN edges' :
            ~Includes(edgesToGlow', k) =>
                ~edges'[k].glowing /\ edges'[k].glowIntensity = 0]_vars

\* A pulse has just been triggered over a pulse still fading out: a vertex
\* outside the new cluster is dark while its earlier tween is under way.
C19_Witness ==
    /\ nodesToGlow # <<>>
    /\ \E i \in DOMAIN vertices :
        /\ ~Includes(nodesToGlow, i)
        /\ ~vertices[i].glowing /\ vertices[i].glowIntensity = 0
        /\ \E k \in 1..Len(tweens) :
            /\ tweens[k].prop = "glowIntensity"
            /\ tweens[k].target = "vertex" /\ tweens[k].index = i
            /\ tweens[k].onComplete = "glowOff"
            /\ tweens[k].time > 0

====
